---- MODULE Spec2Model ----
(***************************************************************************)
(* Kinematics-and-motion core of the 5DOF robotic arm firmware.            *)
(*                                                                         *)
(* Three firmware images share the same position state and the same        *)
(* coordinated stepping loop:                                              *)
(*   "MC"   Firmware/Motor_Controller.ino            (serial M/R/H/E/D/S)   *)
(*   "HS"   Firmware/Homing_Sequence/Homing_Sequence.ino  (serial H/P)      *)
(*   "WEB"  Firmware/IK_Solver_Web_Server_w_Motor_Controller/...ino         *)
(* The variable fw records which image is running; it is chosen once.      *)
(*                                                                         *)
(* Joints are numbered 1..5 (the code's array index plus one).  Angles are *)
(* whole degrees; the float arithmetic of degreesToSteps is modelled by    *)
(* exact rational arithmetic truncated toward zero.  Every loop iteration  *)
(* of the stepping loop and of the homing loops is one step of the model.  *)
(***************************************************************************)
EXTENDS Integers, Sequences, FiniteSets, TLC

(***************************************************************************)
(* Program constants                                                       *)
(***************************************************************************)
STEPS_PER_REV == 200
HARMONIC_RATIO == 25
FULL_TURN == 360

JOINT1_MIN == -180
JOINT1_MAX == 180
JOINT2_MIN == -70
JOINT2_MAX == 70
JOINT3_MIN == -80
JOINT3_MAX == 80
JOINT4_MIN == -90
JOINT4_MAX == 90
JOINT5_MIN == -180
JOINT5_MAX == 180

Joints == 1..5
HomedJoints == {2, 3, 4}

JointMin == <<JOINT1_MIN, JOINT2_MIN, JOINT3_MIN, JOINT4_MIN, JOINT5_MIN>>
JointMax == <<JOINT1_MAX, JOINT2_MAX, JOINT3_MAX, JOINT4_MAX, JOINT5_MAX>>

\* harmonicDrive argument passed by moveToPosition for each joint
Harmonic == <<FALSE, TRUE, TRUE, TRUE, FALSE>>

Zero5 == <<0, 0, 0, 0, 0>>
Default16 == <<16, 16, 16, 16, 16>>

(***************************************************************************)
(* Bounds of the model                                                     *)
(***************************************************************************)
\* safety step ceiling of the seek loop (50000 in the firmware), scaled
MAX_STEPS == 3
\* back-off pulse count (500 in the firmware), scaled
BACKOFF_STEPS == 2
\* number of accepted S (microstepping) commands explored
MaxMicroCmds == 1

(***************************************************************************)
(* Inputs                                                                  *)
(***************************************************************************)
\* absolute joint targets offered to M and /manualMove
AbsTargets ==
  { <<0, 0, 0, 0, 0>>,
    <<9, 0, 0, 0, -4>>,
    <<2, 1, -1, 0, 0>>,
    <<181, 0, 0, 0, 0>> }

\* relative deltas offered to R
RelDeltas == { <<0, 0, 0, 0, -90>> }

\* targets offered to M when a move and the move back are examined
PairTargets ==
  { <<0, 0, 0, 0, 0>>,
    <<2, 1, -1, 0, 0>>,
    <<-3, 0, 0, -1, 7>> }

\* relative deltas offered to R when accumulated moves are examined
DriftDeltas == { <<0, 0, 0, 0, 1>>, <<0, 0, 0, 0, 2>> }

\* R is explored while the resulting roll angle stays within this reach
RelReach == 90

\* poses offered to /solve (x, y, z in mm, pitch, roll in degrees)
Poses ==
  { <<460, 0, 153, 0, 0>>,
    <<1000, 0, 0, 0, 0>>,
    <<200, 100, 200, 0, 0>> }

\* poses offered to /solve when the solver is examined on its own: a grid
\* over the workspace and a few poses at the edges of the reachable shell
IKXs == {-80, 240, 350, 460}
IKYs == {0, 60}
IKZs == {153, 380, 520}
IKPitches == {-60, 0, 45}
IKGrid ==
  {<<x, y, z, p, 0>> : x \in IKXs, y \in IKYs, z \in IKZs, p \in IKPitches}
EdgePoses ==
  { <<0, 0, 612, 90, 0>>,
    <<0, 0, 254, 90, 0>>,
    <<101, 0, 153, 0, 0>>,
    <<447, 0, 203, 30, 0>>,
    <<461, 0, 153, 0, 0>>,
    <<227, 0, 494, 45, 0>>,
    <<312, 0, 254, 90, 0>>,
    <<87, 0, 203, 30, 0>> }
\* roll values offered with the park pose: the ends of the wrapped range and
\* values more than a turn away from it
IKRolls == {-540, -180, 180, 541}
\* the park pose and the same pose with the pitch a whole turn further
WholeTurnPoses == { <<350, 0, 350, 0, 0>>, <<350, 0, 350, 360, 0>> }

RollPoses == {<<350, 0, 350, 0, r>> : r \in IKRolls}
\* joint configurations inside the joint limits; the poses they put the tool
\* in (RoundTripPoses, below) are offered to /solve as well
RoundTripConfigs ==
  { <<0, 66, 56, -10, 0>>,
    <<30, 20, -40, 10, 0>>,
    <<-45, -30, -70, -20, 0>>,
    <<0, 65, -60, -85, 0>> }

\* largest deviation (half millimetres, per axis) at which a position counts
\* as reproduced: the resolution of whole-degree angles
FKTol == 16

\* width (half millimetres) of the band called "just inside" the boundary
BoundaryEps == 4

\* absolute targets offered to M when the step arithmetic is examined at
\* full scale: a whole turn of a direct-drive and of a geared joint, and a
\* delta that is not a whole number of steps
WideTargets ==
  { <<0, 0, 0, 0, 0>>,
    <<360, -360, 0, 0, 0>>,
    <<1, 0, 0, 0, -1>> }

\* ticks of a move explored after a product of the proportional test first
\* left the range of long
WrapTicks == 2

Groups == 0..4
MicrostepInputs == {1, 3, 16}

\* microsteps values offered to S when the command is examined on its own
AllMicrostepInputs == {0, 1, 2, 3, 4, 8, 16, 32}

(***************************************************************************)
(* Pure helpers                                                            *)
(***************************************************************************)
Abs(n) == IF n < 0 THEN -n ELSE n

\* C cast (long)(num/den): truncation toward zero, den > 0
TruncDiv(num, den) == IF num >= 0 THEN num \div den ELSE -((-num) \div den)

\* variant: the product is rounded down instead of toward zero
degreesToSteps_Floor(degrees, harmonicDrive, microsteps) ==
  (degrees * STEPS_PER_REV * microsteps
     * (IF harmonicDrive THEN HARMONIC_RATIO ELSE 1)) \div FULL_TURN

\* variant: the product is rounded to the nearest step instead of truncated
degreesToSteps_Rounded(degrees, harmonicDrive, microsteps) ==
  LET num == degrees * STEPS_PER_REV * microsteps
               * (IF harmonicDrive THEN HARMONIC_RATIO ELSE 1)
  IN IF num >= 0 THEN (2 * num + FULL_TURN) \div (2 * FULL_TURN)
     ELSE -((2 * (-num) + FULL_TURN) \div (2 * FULL_TURN))

degreesToSteps(degrees, harmonicDrive, microsteps) ==
  TruncDiv(degrees * STEPS_PER_REV * microsteps
             * (IF harmonicDrive THEN HARMONIC_RATIO ELSE 1),
           FULL_TURN)

\* signed step counts of a move from position cur to target t
SignedSteps(t, cur, ms) ==
  [i \in Joints |-> degreesToSteps(t[i] - cur[i], Harmonic[i], ms[i])]

RECURSIVE MaxUpTo(_, _)
MaxUpTo(s, n) ==
  IF n = 0 THEN 0
  ELSE LET m == MaxUpTo(s, n - 1) IN IF s[n] > m THEN s[n] ELSE m

\* variant: the maximum loop stops one joint early
MaxSteps_FourJoints(s) == MaxUpTo(s, 4)

\* the "find maximum steps" loop
MaxSteps(s) == MaxUpTo(s, 5)

\* the largest value of long (32 bits on the ESP32)
LONG_MAX == 2147483647

\* a * b is beyond LONG_MAX, for a, b >= 0
Exceeds(a, b) == b > 0 /\ a > LONG_MAX \div b

\* variant: the test looks one tick ahead
ShouldStep_Ahead(taken, need, maxS, stp) == taken * maxS < need * (stp + 1)

\* variant: non-strict proportional test
ShouldStep_NonStrict(taken, need, maxS, stp) == taken * maxS <= need * stp

\* the proportional test of the stepping loop
ShouldStep(taken, need, maxS, stp) == taken * maxS < need * stp


(***************************************************************************)
(* Fixed-point geometry for solveIK.  Lengths are kept in half millimetres *)
(* (L1 = 152.5 mm), cosines are scaled by 10000 and angles are rounded to  *)
(* whole degrees.                                                          *)
(***************************************************************************)
L1 == 305
L2 == 360
L3 == 360
L4 == 202
\* cos(k degrees) * TRIG_SCALE for k = 0..90, entry k+1
CosTab ==
  <<10000, 9998, 9994, 9986, 9976, 9962, 9945, 9925, 9903, 9877, 9848,
  9816, 9781, 9744, 9703, 9659, 9613, 9563, 9511, 9455, 9397, 9336, 9272,
  9205, 9135, 9063, 8988, 8910, 8829, 8746, 8660, 8572, 8480, 8387, 8290,
  8192, 8090, 7986, 7880, 7771, 7660, 7547, 7431, 7314, 7193, 7071, 6947,
  6820, 6691, 6561, 6428, 6293, 6157, 6018, 5878, 5736, 5592, 5446, 5299,
  5150, 5000, 4848, 4695, 4540, 4384, 4226, 4067, 3907, 3746, 3584, 3420,
  3256, 3090, 2924, 2756, 2588, 2419, 2250, 2079, 1908, 1736, 1564, 1392,
  1219, 1045, 872, 698, 523, 349, 175, 0>>

\* the scale of CosTab: cos(0)
TRIG_SCALE == CosTab[1]

RECURSIVE CosDeg(_)
CosDeg(a) ==
  IF a < 0 THEN CosDeg(-a)
  ELSE IF a > 180 THEN CosDeg(360 - a)
  ELSE IF a > 90 THEN -CosTab[180 - a + 1]
  ELSE CosTab[a + 1]

SinDeg(a) == IF a >= -90 THEN CosDeg(a - 90) ELSE CosDeg(a + 270)

\* the largest k in lo..hi with c at or below the cosine of k - 1/2 degrees
\* (bisection: the cosine falls as k grows); lo if there is none
RECURSIVE AcosSearch(_, _, _)
AcosSearch(c, lo, hi) ==
  IF lo >= hi THEN lo
  ELSE LET mid == (lo + hi + 1) \div 2
       IN IF 2 * c <= CosDeg(mid - 1) + CosDeg(mid)
            THEN AcosSearch(c, mid, hi)
            ELSE AcosSearch(c, lo, mid - 1)

\* acos in whole degrees, rounded to nearest; c is scaled by TRIG_SCALE
AcosDeg(c) == AcosSearch(c, 0, 180)

\* the largest k in lo..hi with y / x at or above the tangent of k - 1/2
\* degrees; lo if there is none
RECURSIVE AtanSearch(_, _, _, _)
AtanSearch(y, x, lo, hi) ==
  IF lo >= hi THEN lo
  ELSE LET mid == (lo + hi + 1) \div 2
       IN IF y * (CosDeg(mid - 1) + CosDeg(mid))
               >= x * (SinDeg(mid - 1) + SinDeg(mid))
            THEN AtanSearch(y, x, mid, hi)
            ELSE AtanSearch(y, x, lo, mid - 1)

\* atan2 for y >= 0, x >= 0, rounded to nearest degree
AtanQ1(y, x) == IF x = 0 /\ y = 0 THEN 0 ELSE AtanSearch(y, x, 0, 90)

Atan2Deg(y, x) ==
  IF y >= 0
    THEN IF x >= 0 THEN AtanQ1(y, x) ELSE 180 - AtanQ1(y, -x)
    ELSE IF x >= 0 THEN -AtanQ1(-y, x) ELSE -(180 - AtanQ1(-y, -x))

RECURSIVE SqrtSearch(_, _, _)
SqrtSearch(n, lo, hi) ==
  IF lo >= hi THEN lo
  ELSE LET mid == (lo + hi + 1) \div 2
       IN IF mid * mid <= n THEN SqrtSearch(n, mid, hi)
          ELSE SqrtSearch(n, lo, mid - 1)

\* floor of the square root, n < 2^30
Isqrt(n) == SqrtSearch(n, 0, 32767)

\* square root rounded to nearest
SqrtNear(n) == LET f == Isqrt(n) IN IF n - f * f > f THEN f + 1 ELSE f

RECURSIVE RatioDigits(_, _, _, _)
RatioDigits(q, r, den, n) ==
  IF n = 0 THEN q
  ELSE RatioDigits(q * 10 + (r * 10) \div den, (r * 10) % den, den, n - 1)

\* floor(num * TRIG_SCALE / den) for num >= 0, den > 0, by long division
RatioPos(num, den) == RatioDigits(num \div den, num % den, den, 4)

\* num / den scaled by TRIG_SCALE, truncated toward zero
Ratio(num, den) == IF num >= 0 THEN RatioPos(num, den) ELSE -RatioPos(-num, den)

\* a * c / TRIG_SCALE for a cosine c, truncated toward zero
Scale(a, c) == TruncDiv(a * c, TRIG_SCALE)

\* the two normalisation loops of solveIK
RECURSIVE Normalize(_)
Normalize(a) ==
  IF a > 180 THEN Normalize(a - 360)
  ELSE IF a < -180 THEN Normalize(a + 360)
  ELSE a

InLimits(i, a) == a >= JointMin[i] /\ a <= JointMax[i]

(***************************************************************************)
(* solveIK(x, y, z, pitch_deg, roll_deg) writing into the array prev       *)
(* (the global theta of the web firmware, the caller's result array in     *)
(* Homing_Sequence.ino).  x, y, z are millimetres.  The result is          *)
(* [ok, err, theta].                                                       *)
(***************************************************************************)
\* base angle, wrist centre and the squared shoulder-to-wrist distance
\* (half millimetres)
IKReach(x, y, z, pitch_deg) ==
  LET X == 2 * x
      Y == 2 * y
      Z == 2 * z
      rho == SqrtNear(X * X + Y * Y)
      cosBase == IF rho = 0 THEN TRIG_SCALE ELSE Ratio(X, rho)
      sinBase == IF rho = 0 THEN 0 ELSE Ratio(Y, rho)
      reach == Scale(L4, CosDeg(pitch_deg))
      wx == X - Scale(reach, cosBase)
      wy == Y - Scale(reach, sinBase)
      wz == Z - Scale(L4, SinDeg(pitch_deg))
      rr == wx * wx + wy * wy
      h == wz - L1
  IN [theta1 |-> Atan2Deg(y, x), r |-> SqrtNear(rr), h |-> h,
      dd |-> rr + h * h]

\* variant: the outer test is missing
OutOfReach_NoOuter(dd) == dd < (L2 - L3) * (L2 - L3)

\* variant: the outer test adds the wrong link
OutOfReach_WrongLink(dd) ==
  dd > (L2 + L4) * (L2 + L4) \/ dd < (L2 - L3) * (L2 - L3)

\* d > (L2 + L3) || d < abs(L2 - L3), on the squared distance
OutOfReach(dd) == dd > (L2 + L3) * (L2 + L3) \/ dd < (L2 - L3) * (L2 - L3)

\* variant: the wrist-pitch limit is not tested
ElbowValid_NoWrist(c) == InLimits(2, c[1]) /\ InLimits(3, c[2])

\* variant: the elbow limit is not tested
ElbowValid_NoElbow(c) == InLimits(2, c[1]) /\ InLimits(4, c[3])

\* the limit test of one candidate <<theta2, theta3, theta4>>
ElbowValid(c) == InLimits(2, c[1]) /\ InLimits(3, c[2]) /\ InLimits(4, c[3])

\* the law-of-cosines part for the reach g of IKReach: both cosines and both
\* candidates.  With d = 0 the float quotient cos_angle2 is 0/0, a NaN:
\* every comparison with it is false, so it passes the range test and no
\* candidate it enters is valid.
IKAngles(g, pitch_deg) ==
  LET \* d in twentieths of a millimetre
      d == SqrtNear(g.dd * 100)
      nan == d = 0
      cos_angle2 == IF nan THEN 0
                    ELSE Ratio((L2 * L2 + g.dd - L3 * L3) * 10, 2 * L2 * d)
      angle2 == AcosDeg(cos_angle2)
      alpha == Atan2Deg(g.h, g.r)
      cos_angle3 == Ratio(L2 * L2 + L3 * L3 - g.dd, 2 * L2 * L3)
      theta2_up == alpha + angle2
      theta3_up == 180 - AcosDeg(cos_angle3)
      theta4_up == pitch_deg - (theta2_up - theta3_up)
      theta2_down == alpha - angle2
      theta3_down == -(180 - AcosDeg(cos_angle3))
      theta4_down == pitch_deg - (theta2_down - theta3_down)
      up == <<theta2_up, theta3_up, theta4_up>>
      down == <<theta2_down, theta3_down, theta4_down>>
  IN [cos_angle2 |-> cos_angle2, cos_angle3 |-> cos_angle3,
      up |-> up, down |-> down,
      elbowUpValid |-> ~nan /\ ElbowValid(up),
      elbowDownValid |-> ~nan /\ ElbowValid(down)]

CosineOutOfRange(c) == c < -TRIG_SCALE \/ c > TRIG_SCALE

ErrDistance == "Target out of reach (distance)"
ErrShoulder == "Invalid geometry (shoulder)"
ErrElbow == "Invalid geometry (elbow)"
ErrLimits == "Both elbow configurations exceed joint limits"

\* variant: the joint limits are examined before the geometry
FailureReason_LimitsFirst(dd, a) ==
  IF ~a.elbowUpValid /\ ~a.elbowDownValid THEN ErrLimits
  ELSE IF OutOfReach(dd) THEN ErrDistance
  ELSE IF CosineOutOfRange(a.cos_angle2) THEN ErrShoulder
  ELSE IF CosineOutOfRange(a.cos_angle3) THEN ErrElbow
  ELSE ""

\* the early returns of solveIK in the order of the code; "" if none is taken
FailureReason(dd, a) ==
  IF OutOfReach(dd) THEN ErrDistance
  ELSE IF CosineOutOfRange(a.cos_angle2) THEN ErrShoulder
  ELSE IF CosineOutOfRange(a.cos_angle3) THEN ErrElbow
  ELSE IF ~a.elbowUpValid /\ ~a.elbowDownValid THEN ErrLimits
  ELSE ""

\* variant: elbow-down is tried first
SelectElbow_DownFirst(a) == IF a.elbowDownValid THEN a.down ELSE a.up

\* if (elbowUpValid) ... else if (elbowDownValid) ...
SelectElbow(a) == IF a.elbowUpValid THEN a.up ELSE a.down

\* the part of solveIK after the geometry: early returns, candidate
\* selection, normalisation
solveIKFrom(g, a, roll_deg, prev) ==
  LET t0 == [prev EXCEPT ![1] = g.theta1]
      err == FailureReason(g.dd, a)
      c == SelectElbow(a)
      t == <<g.theta1, c[1], c[2], c[3], roll_deg>>
  IN IF err # ""
       THEN [ok |-> FALSE, err |-> err, theta |-> t0]
       ELSE [ok |-> TRUE, err |-> "",
             theta |-> [i \in Joints |-> Normalize(t[i])]]

solveIK(x, y, z, pitch_deg, roll_deg, prev) ==
  LET g == IKReach(x, y, z, pitch_deg)
  IN solveIKFrom(g, IKAngles(g, pitch_deg), roll_deg, prev)

(***************************************************************************)
(* Forward kinematics, in the fixed-point arithmetic of the solver         *)
(***************************************************************************)
\* tool position <<X, Y, Z>> in half millimetres of the joint angles th:
\* base azimuth th[1], upper arm L2 at th[2], forearm L3 at th[2] - th[3],
\* tool offset L4 at the pitch th[2] - th[3] + th[4], height offset L1
FKPoint(th) ==
  LET arm == th[2] - th[3]
      pitch == arm + th[4]
      radial == Scale(L2, CosDeg(th[2])) + Scale(L3, CosDeg(arm))
                  + Scale(L4, CosDeg(pitch))
      height == L1 + Scale(L2, SinDeg(th[2])) + Scale(L3, SinDeg(arm))
                  + Scale(L4, SinDeg(pitch))
  IN <<Scale(radial, CosDeg(th[1])), Scale(radial, SinDeg(th[1])), height>>

\* half millimetres to whole millimetres, rounded to nearest
ToMm(h) == IF h >= 0 THEN (h + 1) \div 2 ELSE -((1 - h) \div 2)

\* the pose (whole millimetres, degrees) the joint angles th put the tool in
FKPose(th) ==
  LET p == FKPoint(th)
  IN <<ToMm(p[1]), ToMm(p[2]), ToMm(p[3]), th[2] - th[3] + th[4], th[5]>>

\* the poses of the configurations in RoundTripConfigs
RoundTripPoses == {FKPose(c) : c \in RoundTripConfigs}
IKPoses ==
  IKGrid \cup EdgePoses \cup RollPoses \cup WholeTurnPoses
    \cup RoundTripPoses \cup Poses

\* the pose parkPosition solves for: X=350, Y=0, Z=350, pitch 0, roll 0
ParkPose == <<350, 0, 350, 0, 0>>

VARIABLES
  fw,                 \* firmware image
  pc,                 \* "idle" | "moving" | "seek" | "backoff" | "sethomed"
  cmd,                \* command or request being served (last one when idle)
  currentPosition,
  targetPosition,     \* Motor_Controller.ino global
  motorsEnabled,
  currentMicrosteps,
  isHomed,
  theta,              \* web firmware: solver output
  pendingMove,
  hasPendingMove,
  lastSolveStatus,
  lastSolveError,
  dirPin,             \* TRUE = HIGH
  targetPos,          \* moveToPosition's target (parameters / local array)
  stepsNeeded,        \* absolute values
  maxSteps,
  stepsTaken,
  step,               \* loop counter of the stepping loop
  homeJoint,          \* joint homeAxisWithLimitSwitch is working on, 0 if none
  stepCount,          \* seek loop counter
  backoffI,           \* back-off loop counter
  seekOutcome,        \* per homed joint: "none" | "triggered" | "timeout"
  pulses,             \* stepMotor calls per joint since the running (or last)
                      \* motor-driving operation began
  reqTarget,          \* target handed to the last move request
  startPosition,      \* currentPosition when the running operation began
  microCmds,          \* accepted S commands so far
  lastPose,           \* web firmware: lastX, lastY, lastZ, lastPitch, lastRoll
  reply,              \* what the last request was answered with: the final
                      \* serial line of a move or of an S command, the body
                      \* of an HTTP response
  exitRead,           \* per homed joint: what the limit switch read when the
                      \* seek loop was left, "none" | "low" | "high"
  verifyRead,         \* per homed joint: what the limit switch read after
                      \* the back-off, "none" | "low" | "high"
  anchor,             \* position an observer noted while the arm was idle,
                      \* NoAnchor before
  netPulses           \* per joint: pulses sent since the anchor was noted,
                      \* counted +1 with the direction pin HIGH, -1 with LOW

vars == <<fw, pc, cmd, currentPosition, targetPosition, motorsEnabled,
          currentMicrosteps, isHomed, theta, pendingMove, hasPendingMove,
          lastSolveStatus, lastSolveError, dirPin, targetPos, stepsNeeded,
          maxSteps, stepsTaken, step, homeJoint, stepCount, backoffI,
          seekOutcome, pulses, reqTarget, startPosition, microCmds,
          lastPose, reply, exitRead, verifyRead, anchor,
          netPulses>>

config == <<fw, currentMicrosteps, microCmds>>
webState == <<theta, pendingMove, hasPendingMove, lastSolveStatus,
              lastSolveError, lastPose>>
moveLocals == <<targetPos, stepsNeeded, maxSteps, stepsTaken, step>>
homeLocals == <<homeJoint, stepCount, backoffI, seekOutcome, exitRead,
                verifyRead>>
observer == <<anchor, netPulses>>

NoOutcome == [j \in HomedJoints |-> "none"]
NoAnchor == <<>>

\* request answers
NoReply == ""
HttpSuccess == "{\"success\":true}"
HttpNoPending == "{\"error\":\"No pending move\"}"
HttpSolved == "{\"success\":true,\"angles\":[...]}"

Init ==
  /\ fw \in {"MC", "HS", "WEB"}
  /\ pc = "idle"
  /\ cmd = "none"
  /\ currentPosition = Zero5
  /\ targetPosition = Zero5
  /\ motorsEnabled = TRUE
  /\ currentMicrosteps = Default16
  /\ isHomed = FALSE
  /\ theta = Zero5
  /\ pendingMove = Zero5
  /\ hasPendingMove = FALSE
  /\ lastSolveStatus = "Ready"
  /\ lastSolveError = ""
  /\ dirPin = [i \in Joints |-> FALSE]
  /\ targetPos = Zero5
  /\ stepsNeeded = Zero5
  /\ maxSteps = 0
  /\ stepsTaken = Zero5
  /\ step = 0
  /\ homeJoint = 0
  /\ stepCount = 0
  /\ backoffI = 0
  /\ seekOutcome = NoOutcome
  /\ pulses = Zero5
  /\ reqTarget = Zero5
  /\ startPosition = Zero5
  /\ microCmds = 0
  /\ lastPose = Zero5
  /\ reply = NoReply
  /\ exitRead = NoOutcome
  /\ verifyRead = NoOutcome
  /\ anchor = NoAnchor
  /\ netPulses = Zero5

(***************************************************************************)
(* moveToPosition                                                          *)
(***************************************************************************)
\* variant: no image tests motorsEnabled
ChecksEnabled_Never == FALSE

\* does this image's moveToPosition test motorsEnabled on entry?
ChecksEnabled == fw \in {"MC", "WEB"}

\* variant: the update loop stops one joint early
CommitValue_FourJoints ==
  IF fw = "MC" THEN [targetPosition EXCEPT ![5] = currentPosition[5]]
  ELSE [targetPos EXCEPT ![5] = currentPosition[5]]

\* variant: the disabled branch falls through to the closing message
RefusedLine_Complete == "Move complete!"

\* the line moveToPosition prints before its early return
RefusedLine == IF fw = "MC" THEN "Motors disabled! Enable with 'E' command."
               ELSE "Motors disabled!"

\* the last line moveToPosition prints after the stepping loop
CompletedLine == IF fw = "HS" THEN " Done!" ELSE "Move complete!"

\* what a serial move command has reported once moveToPosition returned
\* early; nothing is reported while the move runs
SerialAnswer == IF ChecksEnabled /\ ~motorsEnabled THEN RefusedLine ELSE NoReply

\* the position the "update current positions" loop copies from
CommitValue == IF fw = "MC" THEN targetPosition ELSE targetPos

\* entry of moveToPosition up to the start of the stepping loop
StartMove(t) ==
  LET s == SignedSteps(t, currentPosition, currentMicrosteps)
      a == [i \in Joints |-> Abs(s[i])]
  IN /\ targetPosition' = IF fw = "MC" THEN t ELSE targetPosition
     /\ targetPos' = t
     /\ dirPin' = [i \in Joints |-> s[i] >= 0]
     /\ stepsNeeded' = a
     /\ maxSteps' = MaxSteps(a)
     /\ stepsTaken' = Zero5
     /\ step' = 0
     /\ pulses' = Zero5
     /\ startPosition' = currentPosition
     /\ homeJoint' = 0
     /\ stepCount' = 0
     /\ backoffI' = 0
     /\ seekOutcome' = NoOutcome
     /\ exitRead' = NoOutcome
     /\ verifyRead' = NoOutcome
     /\ pc' = "moving"

\* the early return of a disabled move
RefuseMove ==
  /\ pc' = "idle"
  /\ UNCHANGED <<targetPosition, dirPin, moveLocals, homeLocals, pulses,
                 startPosition>>

\* variant: targets outside the joint limits are refused
moveToPosition_Limited(t) ==
  IF (ChecksEnabled /\ ~motorsEnabled) \/ (\E i \in Joints : ~InLimits(i, t[i]))
    THEN RefuseMove ELSE StartMove(t)

moveToPosition(t) ==
  IF ChecksEnabled /\ ~motorsEnabled THEN RefuseMove ELSE StartMove(t)

\* netPulses after the joints with fire[i] got one pulse each; nothing is
\* counted before an anchor was noted
Counted(fire) ==
  IF anchor = NoAnchor THEN netPulses
  ELSE [i \in Joints |->
          IF fire[i] THEN netPulses[i] + (IF dirPin[i] THEN 1 ELSE -1)
          ELSE netPulses[i]]

\* an observer notes the position of the idle arm and starts counting pulses
Anchor ==
  /\ pc = "idle"
  /\ anchor = NoAnchor
  /\ anchor' = currentPosition
  /\ netPulses' = Zero5
  /\ UNCHANGED <<config, reply, pc, cmd, currentPosition, targetPosition,
                 motorsEnabled, isHomed, webState, dirPin, moveLocals,
                 homeLocals, pulses, reqTarget, startPosition>>

\* joint i's proportional test multiplies beyond the range of long in the
\* coming iteration
Wraps(i) ==
  Exceeds(stepsTaken[i], maxSteps) \/ Exceeds(stepsNeeded[i], step)

\* one iteration of the stepping loop, every product within long
MoveTick ==
  /\ pc = "moving"
  /\ step < maxSteps
  /\ \A i \in Joints : ~Wraps(i)
  /\ LET fire == [i \in Joints |->
                    ShouldStep(stepsTaken[i], stepsNeeded[i], maxSteps, step)]
     IN /\ stepsTaken' = [i \in Joints |->
                            IF fire[i] THEN stepsTaken[i] + 1 ELSE stepsTaken[i]]
        /\ pulses' = [i \in Joints |->
                            IF fire[i] THEN pulses[i] + 1 ELSE pulses[i]]
        /\ netPulses' = Counted(fire)
  /\ step' = step + 1
  /\ UNCHANGED <<config, anchor, reply, pc, cmd, currentPosition, targetPosition,
                 motorsEnabled, isHomed, webState, dirPin, targetPos,
                 stepsNeeded, maxSteps, homeLocals, reqTarget, startPosition>>

\* one iteration of the stepping loop in which a product overflows long:
\* signed overflow is undefined, the test of such a joint may go either way
MoveTickWrapped ==
  /\ pc = "moving"
  /\ step < maxSteps
  /\ \E i \in Joints : Wraps(i)
  /\ step < LONG_MAX \div maxSteps + 1 + WrapTicks
  /\ \E fire \in [Joints -> BOOLEAN] :
        /\ \A i \in Joints :
              ~Wraps(i) =>
                fire[i] = ShouldStep(stepsTaken[i], stepsNeeded[i], maxSteps,
                                     step)
        /\ stepsTaken' = [i \in Joints |->
                            IF fire[i] THEN stepsTaken[i] + 1 ELSE stepsTaken[i]]
        /\ pulses' = [i \in Joints |->
                            IF fire[i] THEN pulses[i] + 1 ELSE pulses[i]]
        /\ netPulses' = Counted(fire)
  /\ step' = step + 1
  /\ UNCHANGED <<config, anchor, reply, pc, cmd, currentPosition, targetPosition,
                 motorsEnabled, isHomed, webState, dirPin, targetPos,
                 stepsNeeded, maxSteps, homeLocals, reqTarget, startPosition>>

\* variant: the executed solution stays pending
MoveCommit_KeepsPending ==
  /\ pc = "moving"
  /\ ~(step < maxSteps)
  /\ currentPosition' = CommitValue
  /\ pc' = "idle"
  /\ IF cmd = "executeMove"
       THEN /\ lastSolveStatus' = "Complete"
            /\ UNCHANGED hasPendingMove
       ELSE UNCHANGED <<hasPendingMove, lastSolveStatus>>
  /\ reply' = IF fw = "WEB" THEN HttpSuccess ELSE CompletedLine
  /\ UNCHANGED <<config, observer, cmd, targetPosition, motorsEnabled,
                 isHomed, theta, pendingMove, lastSolveError, lastPose,
                 dirPin, moveLocals, homeLocals, pulses, reqTarget,
                 startPosition>>

\* loop exit: "update current positions", then the rest of the caller
MoveCommit ==
  /\ pc = "moving"
  /\ ~(step < maxSteps)
  /\ currentPosition' = CommitValue
  /\ pc' = "idle"
  /\ IF cmd = "executeMove"
       THEN /\ hasPendingMove' = FALSE
            /\ lastSolveStatus' = "Complete"
       ELSE UNCHANGED <<hasPendingMove, lastSolveStatus>>
  /\ reply' = IF fw = "WEB" THEN HttpSuccess ELSE CompletedLine
  /\ UNCHANGED <<config, observer, cmd, targetPosition, motorsEnabled, isHomed, theta,
                 pendingMove, lastSolveError, lastPose, dirPin, moveLocals,
                 homeLocals, pulses, reqTarget, startPosition>>

(***************************************************************************)
(* Motor_Controller.ino: serial commands                                   *)
(***************************************************************************)
\* M <j1..j5>
CmdMoveAbs(t) ==
  /\ fw = "MC" /\ pc = "idle"
  /\ cmd' = "M"
  /\ reqTarget' = t
  /\ moveToPosition(t)
  /\ reply' = SerialAnswer
  /\ UNCHANGED <<config, observer, currentPosition, motorsEnabled, isHomed, webState>>

\* R <j1..j5>
CmdMoveRel(d) ==
  /\ fw = "MC" /\ pc = "idle"
  /\ Abs(currentPosition[5] + d[5]) <= RelReach
  /\ cmd' = "R"
  /\ LET t == [i \in Joints |-> currentPosition[i] + d[i]]
     IN /\ reqTarget' = t
        /\ moveToPosition(t)
  /\ reply' = SerialAnswer
  /\ UNCHANGED <<config, observer, currentPosition, motorsEnabled, isHomed, webState>>

\* variant: H resets the positions whether or not the motors are enabled
CmdHomeStub_IgnoresDisable ==
  /\ fw = "MC" /\ pc = "idle"
  /\ reply' = NoReply
  /\ cmd' = "H"
  /\ currentPosition' = Zero5
  /\ targetPosition' = Zero5
  /\ UNCHANGED <<config, observer, pc, motorsEnabled, isHomed, webState,
                 dirPin, moveLocals, homeLocals, pulses, reqTarget,
                 startPosition>>

\* H: homeAllAxes of Motor_Controller.ino (the homeAxis calls are commented out)
CmdHomeStub ==
  /\ fw = "MC" /\ pc = "idle"
  /\ reply' = NoReply
  /\ cmd' = "H"
  /\ IF motorsEnabled
       THEN /\ currentPosition' = Zero5
            /\ targetPosition' = Zero5
       ELSE UNCHANGED <<currentPosition, targetPosition>>
  /\ UNCHANGED <<config, observer, pc, motorsEnabled, isHomed, webState, dirPin,
                 moveLocals, homeLocals, pulses, reqTarget, startPosition>>

CmdEnable ==
  /\ fw = "MC" /\ pc = "idle"
  /\ reply' = NoReply
  /\ cmd' = "E"
  /\ motorsEnabled' = TRUE
  /\ UNCHANGED <<config, observer, pc, currentPosition, targetPosition, isHomed,
                 webState, dirPin, moveLocals, homeLocals, pulses, reqTarget,
                 startPosition>>

CmdDisable ==
  /\ fw = "MC" /\ pc = "idle"
  /\ reply' = NoReply
  /\ cmd' = "D"
  /\ motorsEnabled' = FALSE
  /\ UNCHANGED <<config, observer, pc, currentPosition, targetPosition, isHomed,
                 webState, dirPin, moveLocals, homeLocals, pulses, reqTarget,
                 startPosition>>

ValidMicrosteps == {1, 2, 4, 8, 16}

\* variant: only the lower end of the group range is tested
SetMicrosteps_OpenGroup(ms, group, microsteps) ==
  IF group < 1 THEN ms
  ELSE IF microsteps \notin ValidMicrosteps THEN ms
  ELSE IF group = 1 THEN [ms EXCEPT ![1] = microsteps]
  ELSE IF group = 2
    THEN [ms EXCEPT ![2] = microsteps, ![3] = microsteps, ![4] = microsteps]
  ELSE [ms EXCEPT ![5] = microsteps]

\* the S command's effect on currentMicrosteps
SetMicrosteps(ms, group, microsteps) ==
  IF group < 1 \/ group > 3 THEN ms
  ELSE IF microsteps \notin ValidMicrosteps THEN ms
  ELSE IF group = 1 THEN [ms EXCEPT ![1] = microsteps]
  ELSE IF group = 2
    THEN [ms EXCEPT ![2] = microsteps, ![3] = microsteps, ![4] = microsteps]
  ELSE [ms EXCEPT ![5] = microsteps]

\* the last line printed for a group outside 1..3, and the line printed for
\* a microsteps value that is not allowed
MicroErrGroup == "  Group 3: Wrist Roll"
MicroErrValue == "Error: Microsteps must be 1, 2, 4, 8, or 16"

\* the line printed when a group has been set
GroupLine(group, microsteps) ==
  (IF group = 1 THEN "Group 1 (Waist)"
   ELSE IF group = 2
     THEN "Group 2 (Geared motors: Shoulder/Elbow/Wrist Pitch)"
   ELSE "Group 3 (Wrist Roll)")
    \o " microstepping set to 1/" \o ToString(microsteps)

\* the last line the S command prints
MicrostepReply(group, microsteps) ==
  IF group < 1 \/ group > 3 THEN MicroErrGroup
  ELSE IF microsteps \notin ValidMicrosteps THEN MicroErrValue
  ELSE GroupLine(group, microsteps)

\* S <group> <microsteps>
CmdSetMicrostepping(group, microsteps) ==
  /\ fw = "MC" /\ pc = "idle"
  /\ reply' = MicrostepReply(group, microsteps)
  /\ cmd' = "S"
  /\ currentMicrosteps' = SetMicrosteps(currentMicrosteps, group, microsteps)
  /\ IF currentMicrosteps' # currentMicrosteps
       THEN microCmds < MaxMicroCmds /\ microCmds' = microCmds + 1
       ELSE microCmds' = microCmds
  /\ UNCHANGED <<fw, observer, pc, currentPosition, targetPosition,
                 motorsEnabled,
                 isHomed, webState, dirPin, moveLocals, homeLocals, pulses,
                 reqTarget, startPosition>>

(***************************************************************************)
(* Homing_Sequence.ino: homing and park                                    *)
(***************************************************************************)
\* entry of homeAxisWithLimitSwitch for joint j: direction toward the switch
BeginSeek(j) ==
  /\ homeJoint' = j
  /\ dirPin' = [dirPin EXCEPT ![j] = FALSE]
  /\ stepCount' = 0
  /\ pc' = "seek"

\* variant: a joint that hit the ceiling ends the whole sequence
AxisReturn_StopOnTimeout ==
  IF homeJoint < 4 /\ stepCount < MAX_STEPS
    THEN BeginSeek(homeJoint + 1)
    ELSE /\ pc' = "sethomed"
         /\ UNCHANGED <<homeJoint, dirPin, stepCount>>

\* return of homeAxisWithLimitSwitch to homeAllAxes
AxisReturn ==
  IF homeJoint < 4
    THEN BeginSeek(homeJoint + 1)
    ELSE /\ pc' = "sethomed"
         /\ UNCHANGED <<homeJoint, dirPin, stepCount>>

\* variant: a new homing sequence clears the flag first
CmdHome_ClearsFlag ==
  /\ fw = "HS" /\ pc = "idle"
  /\ reply' = NoReply
  /\ cmd' = "H"
  /\ BeginSeek(2)
  /\ backoffI' = 0
  /\ seekOutcome' = NoOutcome
  /\ exitRead' = NoOutcome
  /\ verifyRead' = NoOutcome
  /\ pulses' = Zero5
  /\ startPosition' = currentPosition
  /\ isHomed' = FALSE
  /\ UNCHANGED <<config, observer, currentPosition, targetPosition,
                 motorsEnabled, webState, moveLocals, reqTarget>>

\* variant: the sequence starts with the base motor
CmdHome_FromBase ==
  /\ fw = "HS" /\ pc = "idle"
  /\ reply' = NoReply
  /\ cmd' = "H"
  /\ BeginSeek(1)
  /\ backoffI' = 0
  /\ seekOutcome' = NoOutcome
  /\ exitRead' = NoOutcome
  /\ verifyRead' = NoOutcome
  /\ pulses' = Zero5
  /\ startPosition' = currentPosition
  /\ UNCHANGED <<config, observer, currentPosition, targetPosition, motorsEnabled,
                 isHomed, webState, moveLocals, reqTarget>>

\* H: homeAllAxes up to the first seek
CmdHome ==
  /\ fw = "HS" /\ pc = "idle"
  /\ reply' = NoReply
  /\ cmd' = "H"
  /\ BeginSeek(2)
  /\ backoffI' = 0
  /\ seekOutcome' = NoOutcome
  /\ exitRead' = NoOutcome
  /\ verifyRead' = NoOutcome
  /\ pulses' = Zero5
  /\ startPosition' = currentPosition
  /\ UNCHANGED <<config, observer, currentPosition, targetPosition, motorsEnabled,
                 isHomed, webState, moveLocals, reqTarget>>

\* variant: the ceiling test admits one more iteration
SeekPulse_OffByOne ==
  /\ pc = "seek"
  /\ stepCount <= MAX_STEPS
  /\ pulses' = [pulses EXCEPT ![homeJoint] = @ + 1]
  /\ netPulses' = Counted([i \in Joints |-> i = homeJoint])
  /\ stepCount' = stepCount + 1
  /\ UNCHANGED <<config, anchor, reply, pc, cmd, currentPosition, targetPosition,
                 motorsEnabled, isHomed, webState, dirPin, moveLocals,
                 homeJoint, backoffI, seekOutcome, exitRead, verifyRead,
                 reqTarget, startPosition>>

\* seek loop body: the switch reads open and the ceiling is not reached
SeekPulse ==
  /\ pc = "seek"
  /\ stepCount < MAX_STEPS
  /\ pulses' = [pulses EXCEPT ![homeJoint] = @ + 1]
  /\ netPulses' = Counted([i \in Joints |-> i = homeJoint])
  /\ stepCount' = stepCount + 1
  /\ UNCHANGED <<config, anchor, reply, pc, cmd, currentPosition, targetPosition,
                 motorsEnabled, isHomed, webState, dirPin, moveLocals,
                 homeJoint, backoffI, seekOutcome, exitRead, verifyRead,
                 reqTarget, startPosition>>

\* seek loop exit below the ceiling: the switch reads triggered
SeekTriggered ==
  /\ pc = "seek"
  /\ stepCount < MAX_STEPS
  /\ seekOutcome' = [seekOutcome EXCEPT ![homeJoint] = "triggered"]
  /\ exitRead' = [exitRead EXCEPT ![homeJoint] = "low"]
  /\ dirPin' = [dirPin EXCEPT ![homeJoint] = TRUE]
  /\ backoffI' = 0
  /\ pc' = "backoff"
  /\ UNCHANGED <<config, observer, reply, cmd, currentPosition, targetPosition,
                 motorsEnabled,
                 isHomed, webState, moveLocals, homeJoint, stepCount, pulses,
                 verifyRead, reqTarget, startPosition>>

\* seek loop exit at the ceiling, whatever the switch reads: early return
SeekTimeout(triggered) ==
  /\ pc = "seek"
  /\ ~(~triggered /\ stepCount < MAX_STEPS)
  /\ stepCount >= MAX_STEPS
  /\ seekOutcome' = [seekOutcome EXCEPT ![homeJoint] = "timeout"]
  /\ exitRead' = [exitRead EXCEPT ![homeJoint] =
                                     IF triggered THEN "low" ELSE "high"]
  /\ AxisReturn
  /\ UNCHANGED <<config, observer, reply, cmd, currentPosition, targetPosition,
                 motorsEnabled,
                 isHomed, webState, moveLocals, backoffI, pulses, reqTarget,
                 verifyRead, startPosition>>

BackoffPulse ==
  /\ pc = "backoff"
  /\ backoffI < BACKOFF_STEPS
  /\ pulses' = [pulses EXCEPT ![homeJoint] = @ + 1]
  /\ netPulses' = Counted([i \in Joints |-> i = homeJoint])
  /\ backoffI' = backoffI + 1
  /\ UNCHANGED <<config, anchor, reply, pc, cmd, currentPosition, targetPosition,
                 motorsEnabled, isHomed, webState, dirPin, moveLocals,
                 homeJoint, stepCount, seekOutcome, exitRead, verifyRead,
                 reqTarget, startPosition>>

\* variant: a switch still triggered after the back-off ends the sequence
BackoffVerify_Aborts(triggered) ==
  /\ pc = "backoff"
  /\ ~(backoffI < BACKOFF_STEPS)
  /\ verifyRead' = [verifyRead EXCEPT ![homeJoint] =
                                         IF triggered THEN "low" ELSE "high"]
  /\ IF triggered
       THEN pc' = "idle" /\ UNCHANGED <<homeJoint, dirPin, stepCount>>
       ELSE AxisReturn
  /\ UNCHANGED <<config, observer, reply, cmd, currentPosition,
                 targetPosition, motorsEnabled, isHomed, webState,
                 moveLocals, backoffI, seekOutcome, exitRead, pulses,
                 reqTarget, startPosition>>

\* after the back-off loop the switch is read again; either reading only logs
BackoffVerify(triggered) ==
  /\ pc = "backoff"
  /\ ~(backoffI < BACKOFF_STEPS)
  /\ verifyRead' = [verifyRead EXCEPT ![homeJoint] =
                                         IF triggered THEN "low" ELSE "high"]
  /\ AxisReturn
  /\ UNCHANGED <<config, observer, reply, cmd, currentPosition, targetPosition,
                 motorsEnabled,
                 isHomed, webState, moveLocals, backoffI, seekOutcome, exitRead, pulses,
                 reqTarget, startPosition>>

\* variant: the wrist pitch entry is not written
HomedPosition_NoWrist(pos) ==
  [pos EXCEPT ![2] = JOINT2_MIN, ![3] = JOINT3_MIN]

\* "set homed positions" at the end of homeAllAxes
HomedPosition(pos) ==
  [pos EXCEPT ![2] = JOINT2_MIN, ![3] = JOINT3_MIN, ![4] = JOINT4_MIN]

\* the end of homeAllAxes: positions, then isHomed = true
SetHomed ==
  /\ pc = "sethomed"
  /\ currentPosition' = HomedPosition(currentPosition)
  /\ isHomed' = TRUE
  /\ pc' = "idle"
  /\ UNCHANGED <<config, observer, reply, cmd, targetPosition, motorsEnabled, webState,
                 dirPin,
                 moveLocals, homeLocals, pulses, reqTarget, startPosition>>

\* variant: P parks without looking at the flag
CmdPark_Unguarded ==
  /\ fw = "HS" /\ pc = "idle"
  /\ cmd' = "P"
  /\ reply' = IF ~solveIK(ParkPose[1], ParkPose[2], ParkPose[3],
                          ParkPose[4], ParkPose[5], Zero5).ok
                THEN "Position may be unreachable."
              ELSE NoReply
  /\ LET res == solveIK(ParkPose[1], ParkPose[2], ParkPose[3], ParkPose[4],
                        ParkPose[5], Zero5)
     IN IF res.ok
          THEN /\ reqTarget' = res.theta
               /\ StartMove(res.theta)
          ELSE UNCHANGED <<targetPosition, dirPin, moveLocals, homeLocals,
                           pulses, reqTarget, startPosition, pc>>
  /\ UNCHANGED <<config, observer, currentPosition, motorsEnabled, isHomed,
                 webState>>

\* P: refused until homed, otherwise parkPosition
CmdPark ==
  /\ fw = "HS" /\ pc = "idle"
  /\ cmd' = "P"
  /\ reply' = IF ~isHomed THEN "ERROR: Must home first! Send 'H' command."
              ELSE IF ~solveIK(ParkPose[1], ParkPose[2], ParkPose[3],
                               ParkPose[4], ParkPose[5], Zero5).ok
                THEN "Position may be unreachable."
              ELSE NoReply
  /\ LET res == solveIK(ParkPose[1], ParkPose[2], ParkPose[3], ParkPose[4],
                        ParkPose[5], Zero5)
     IN IF isHomed /\ res.ok
          THEN /\ reqTarget' = res.theta
               /\ StartMove(res.theta)
          ELSE UNCHANGED <<targetPosition, dirPin, moveLocals, homeLocals,
                           pulses, reqTarget, startPosition, pc>>
  /\ UNCHANGED <<config, observer, currentPosition, motorsEnabled, isHomed, webState>>

(***************************************************************************)
(* Web firmware: request handlers                                          *)
(***************************************************************************)
\* variant: a failed solve leaves the pending flag as it was
HandleSolve_KeepsPending(p) ==
  /\ fw = "WEB" /\ pc = "idle"
  /\ cmd' = "solve"
  /\ \E res \in {solveIK(p[1], p[2], p[3], p[4], p[5], theta)} :
        /\ theta' = res.theta
        /\ lastPose' = p
        /\ reply' = IF res.ok THEN HttpSolved ELSE res.err
        /\ lastSolveError' = IF res.ok THEN "" ELSE res.err
        /\ IF res.ok
             THEN /\ pendingMove' = res.theta
                  /\ hasPendingMove' = TRUE
                  /\ lastSolveStatus' = "Pending"
             ELSE /\ pendingMove' = pendingMove
                  /\ hasPendingMove' = hasPendingMove
                  /\ lastSolveStatus' = "Failed"
  /\ UNCHANGED <<config, observer, pc, currentPosition, targetPosition,
                 motorsEnabled, isHomed, dirPin, moveLocals, homeLocals,
                 pulses, reqTarget, startPosition>>

\* /solve
HandleSolve(p) ==
  /\ fw = "WEB" /\ pc = "idle"
  /\ cmd' = "solve"
  /\ \E res \in {solveIK(p[1], p[2], p[3], p[4], p[5], theta)} :
        /\ theta' = res.theta
        /\ lastPose' = p
        /\ reply' = IF res.ok THEN HttpSolved ELSE res.err
        /\ lastSolveError' = IF res.ok THEN "" ELSE res.err
        /\ IF res.ok
             THEN /\ pendingMove' = res.theta
                  /\ hasPendingMove' = TRUE
                  /\ lastSolveStatus' = "Pending"
             ELSE /\ pendingMove' = pendingMove
                  /\ hasPendingMove' = FALSE
                  /\ lastSolveStatus' = "Failed"
  /\ UNCHANGED <<config, observer, pc, currentPosition, targetPosition, motorsEnabled,
                 isHomed, dirPin, moveLocals, homeLocals, pulses, reqTarget,
                 startPosition>>

\* /manualMove
HandleManualMove(t) ==
  /\ fw = "WEB" /\ pc = "idle"
  /\ cmd' = "manualMove"
  /\ reqTarget' = t
  /\ moveToPosition(t)
  /\ reply' = IF ChecksEnabled /\ ~motorsEnabled THEN HttpSuccess ELSE NoReply
  /\ UNCHANGED <<config, observer, currentPosition, motorsEnabled, isHomed, webState>>

\* variant: /executeMove runs the stored angles without testing the flag
HandleExecuteMove_NoCheck ==
  /\ fw = "WEB" /\ pc = "idle"
  /\ cmd' = "executeMove"
  /\ reqTarget' = pendingMove
  /\ IF ~motorsEnabled
       THEN /\ RefuseMove
            /\ hasPendingMove' = FALSE
            /\ lastSolveStatus' = "Complete"
            /\ reply' = HttpSuccess
            /\ UNCHANGED <<theta, pendingMove, lastSolveError, lastPose>>
       ELSE /\ StartMove(pendingMove)
            /\ reply' = NoReply
            /\ UNCHANGED webState
  /\ UNCHANGED <<config, observer, currentPosition, motorsEnabled, isHomed>>

\* /executeMove
HandleExecuteMove ==
  /\ fw = "WEB" /\ pc = "idle"
  /\ cmd' = "executeMove"
  /\ IF ~hasPendingMove
       THEN /\ reply' = HttpNoPending
            /\ UNCHANGED <<targetPosition, dirPin, moveLocals, homeLocals,
                           pulses, reqTarget, startPosition, pc, webState>>
       ELSE /\ reqTarget' = pendingMove
            /\ IF ~motorsEnabled
                 THEN /\ RefuseMove
                      /\ hasPendingMove' = FALSE
                      /\ lastSolveStatus' = "Complete"
                      /\ reply' = HttpSuccess
                      /\ UNCHANGED <<theta, pendingMove, lastSolveError,
                                     lastPose>>
                 ELSE /\ StartMove(pendingMove)
                      /\ reply' = NoReply
                      /\ UNCHANGED webState
  /\ UNCHANGED <<config, observer, currentPosition, motorsEnabled, isHomed>>

Next ==
  \/ \E t \in AbsTargets : CmdMoveAbs(t)
  \/ \E d \in RelDeltas : CmdMoveRel(d)
  \/ CmdHomeStub
  \/ CmdEnable
  \/ CmdDisable
  \/ \E g \in Groups, m \in MicrostepInputs : CmdSetMicrostepping(g, m)
  \/ CmdHome
  \/ SeekPulse
  \/ SeekTriggered
  \/ \E triggered \in BOOLEAN : SeekTimeout(triggered)
  \/ BackoffPulse
  \/ \E triggered \in BOOLEAN : BackoffVerify(triggered)
  \/ SetHomed
  \/ CmdPark
  \/ \E p \in Poses : HandleSolve(p)
  \/ \E t \in AbsTargets : HandleManualMove(t)
  \/ HandleExecuteMove
  \/ MoveTick
  \/ MoveCommit

Spec == Init /\ [][Next]_vars

\* the stepping loop and the commit are never starved: the firmware is a
\* single-threaded busy loop
FairSpec == Spec /\ WF_vars(MoveTick) /\ WF_vars(MoveCommit)

\* the solver on its own: the web image answering /solve requests only
IKInit == Init /\ fw = "WEB"
IKNext == \E p \in IKPoses : HandleSolve(p)
IKSpec == IKInit /\ [][IKNext]_vars

\* the step arithmetic at full scale: Motor_Controller.ino serving M and S
\* commands, a move being followed up to WrapTicks iterations past the first
\* overflowing product
WideInit == Init /\ fw = "MC"
WideNext ==
  \/ \E t \in WideTargets : CmdMoveAbs(t)
  \/ \E g \in Groups, m \in MicrostepInputs : CmdSetMicrostepping(g, m)
  \/ MoveTick
  \/ MoveTickWrapped
  \/ MoveCommit
WideSpec == WideInit /\ [][WideNext]_vars

\* accumulated moves: Motor_Controller.ino serving R commands while an
\* observer counts the pulses sent since a position it noted
DriftInit == Init /\ fw = "MC"
DriftNext ==
  \/ Anchor
  \/ \E d \in DriftDeltas : CmdMoveRel(d)
  \/ MoveTick
  \/ MoveCommit
DriftSpec == DriftInit /\ [][DriftNext]_vars

\* a move and the move back: Motor_Controller.ino serving S commands, then M
\* commands that leave the position an observer noted and return to it
PairInit == Init /\ fw = "MC"
PairMove(t) ==
  /\ anchor = NoAnchor \/ currentPosition = anchor \/ t = anchor
  /\ CmdMoveAbs(t)
PairMicro(g, m) ==
  /\ anchor = NoAnchor
  /\ CmdSetMicrostepping(g, m)
PairNext ==
  \/ Anchor
  \/ \E t \in PairTargets : PairMove(t)
  \/ \E g \in Groups, m \in MicrostepInputs : PairMicro(g, m)
  \/ MoveTick
  \/ MoveCommit
PairSpec == PairInit /\ [][PairNext]_vars

\* the configuration commands on their own: Motor_Controller.ino serving S,
\* E, D and H commands
MicroInit == Init /\ fw = "MC"
MicroNext ==
  \/ \E g \in Groups, m \in AllMicrostepInputs : CmdSetMicrostepping(g, m)
  \/ CmdEnable
  \/ CmdDisable
  \/ CmdHomeStub
MicroSpec == MicroInit /\ [][MicroNext]_vars

\* one step of a running homeAllAxes
HomingStep ==
  \/ SeekPulse
  \/ SeekTriggered
  \/ \E triggered \in BOOLEAN : SeekTimeout(triggered)
  \/ BackoffPulse
  \/ \E triggered \in BOOLEAN : BackoffVerify(triggered)
  \/ SetHomed

\* homeAllAxes runs inside loop() with nothing to preempt it: its loops and
\* delays always get to their next iteration
HomingFairSpec == Spec /\ WF_vars(HomingStep)

(***************************************************************************)
(* Properties                                                              *)
(***************************************************************************)
MoveCmds == {"M", "R", "manualMove", "executeMove", "P"}
DirectCmds == {"M", "R", "manualMove"}

AllTriggered == \A j \in HomedJoints : seekOutcome[j] = "triggered"
SomeTimeout == \E j \in HomedJoints : seekOutcome[j] = "timeout"
HomingDone == fw = "HS" /\ pc = "idle" /\ cmd = "H"
LoopOver == pc = "moving" /\ step >= maxSteps
OutOfLimits(pos) == \E i \in Joints : ~InLimits(i, pos[i])

\* C1: a homing sequence turns isHomed from false to true only if the switch
\* of every homed joint triggered before the step ceiling.
C1_HomedOnlyIfAllTriggered ==
  [][(~isHomed /\ isHomed') => AllTriggered]_vars

\* C2: when the N ticks of the stepping loop are over, every joint has
\* received exactly its absolute step count in pulses.
C2_ExactPulses ==
  LoopOver => \A i \in Joints : pulses[i] = stepsNeeded[i]

\* C3: while the ticks of a move run currentPosition does not change; it is
\* written when the loop is over, and then to exactly the requested target.
C3_CommitOnceToTarget ==
  [][pc = "moving" =>
       IF pc' = "moving" THEN currentPosition' = currentPosition
       ELSE step = maxSteps /\ currentPosition' = reqTarget]_vars

C3_Witness ==
  /\ pc = "idle" /\ cmd \in MoveCmds
  /\ maxSteps > 0 /\ step = maxSteps
  /\ currentPosition = reqTarget
  /\ \A i \in Joints : currentPosition[i] # startPosition[i]

\* C4: a move requested while motorsEnabled is false emits no pulse, writes
\* no direction pin and leaves currentPosition and targetPosition unchanged.
C4_DisabledMoveNoEffect ==
  [][(pc = "idle" /\ ~motorsEnabled /\ cmd' \in MoveCmds) =>
       (pc' = "idle" /\ UNCHANGED <<pulses, dirPin, currentPosition,
                                    targetPosition, stepsTaken>>)]_vars

C4_Witness ==
  /\ pc = "idle" /\ ~motorsEnabled /\ cmd \in {"M", "R"}
  /\ reqTarget # currentPosition
  /\ reqTarget # targetPosition

\* C5: a homing sequence in which all three switches triggered below the
\* ceiling ends with isHomed true and shoulder, elbow and wrist pitch at
\* -70, -80 and -90.
C5_HomedAtMinimums ==
  (HomingDone /\ AllTriggered) =>
    /\ isHomed
    /\ currentPosition[2] = -70
    /\ currentPosition[3] = -80
    /\ currentPosition[4] = -90

C5_Witness ==
  /\ HomingDone /\ AllTriggered
  /\ startPosition # currentPosition
  /\ \A j \in HomedJoints : pulses[j] >= BACKOFF_STEPS

\* C6: a homing sequence in which some joint timed out leaves every
\* currentPosition entry as it was before the sequence.
C6_TimeoutKeepsPositions ==
  (HomingDone /\ SomeTimeout) => currentPosition = startPosition

\* C7: whenever no move is running, every currentPosition entry lies within
\* its joint's configured limits.
C7_PositionWithinLimits ==
  pc = "idle" => ~OutOfLimits(currentPosition)

\* C8: a direct move request made with motors enabled always starts a move
\* toward exactly the requested target, inside the limits or not, and that
\* move commits exactly the requested target.
C8_NoLimitCheck ==
  [][/\ (pc = "idle" /\ motorsEnabled /\ cmd' \in DirectCmds) =>
          (pc' = "moving" /\ targetPos' = reqTarget'
             /\ currentPosition' = currentPosition)
     /\ (pc = "moving" /\ cmd \in DirectCmds /\ pc' # "moving") =>
          currentPosition' = reqTarget]_vars

C8_Witness ==
  /\ pc = "idle" /\ cmd \in DirectCmds
  /\ OutOfLimits(reqTarget)
  /\ currentPosition = reqTarget
  /\ \E i \in Joints : pulses[i] > 0

\* C9: a started move always terminates; its loop counter advances one tick
\* at a time up to N, the largest absolute step count of the five joints,
\* and the move ends only after tick N, with the position commit.
C9_MoveRunsToCompletion ==
  /\ [](pc = "moving" =>
          /\ step <= maxSteps
          /\ \A i \in Joints : stepsNeeded[i] <= maxSteps
          /\ \E i \in Joints : stepsNeeded[i] = maxSteps)
  /\ [][pc = "moving" =>
          IF pc' = "moving" THEN step' = step + 1
          ELSE step = maxSteps /\ pc' = "idle"
                 /\ currentPosition' = reqTarget]_vars
  /\ (pc = "moving" ~> pc = "idle")

C9_Witness ==
  /\ pc = "idle" /\ cmd \in MoveCmds
  /\ maxSteps > 0 /\ step = maxSteps
  /\ stepsNeeded[5] = maxSteps
  /\ currentPosition = reqTarget

\* C10: a joint whose step count for the move is zero receives no pulse
\* during the move.
C10_ZeroDeltaNoPulse ==
  pc = "moving" =>
    \A i \in Joints : stepsNeeded[i] = 0 => pulses[i] = 0

C10_Witness ==
  /\ LoopOver /\ maxSteps > 0
  /\ \E i \in Joints : stepsNeeded[i] = 0
  /\ \E i \in Joints : pulses[i] > 0

\* replies that tell the requester the move was carried out
SuccessReplies == {"Move complete!", " Done!", HttpSuccess}

Homing == fw = "HS" /\ pc \in {"seek", "backoff", "sethomed"}

\* C12: a homing sequence seeks the shoulder, then the elbow, then the wrist
\* pitch, each once: a pulse goes only to the joint being homed, after every
\* earlier joint got its outcome and before any later joint was touched; a
\* joint that timed out is followed by the seek of the next joint, and the
\* sequence ends with an outcome for all three.
C12_SequentialSeek ==
  /\ [](HomingDone => \A j \in HomedJoints : seekOutcome[j] # "none")
  /\ [][Homing =>
          /\ \A j \in Joints :
               pulses'[j] > pulses[j] =>
                 /\ j = homeJoint
                 /\ \A k \in HomedJoints :
                      /\ k < j => seekOutcome[k] # "none"
                      /\ k > j => (seekOutcome[k] = "none" /\ pulses[k] = 0)
          /\ \A j \in HomedJoints :
               seekOutcome[j] # "none" => seekOutcome'[j] = seekOutcome[j]
          /\ homeJoint' \in {homeJoint, homeJoint + 1}
          /\ (/\ homeJoint < 4
              /\ seekOutcome[homeJoint] = "none"
              /\ seekOutcome'[homeJoint] = "timeout") =>
               (/\ pc' = "seek"
                /\ homeJoint' = homeJoint + 1
                /\ stepCount' = 0)]_vars

C12_Witness ==
  /\ HomingDone
  /\ seekOutcome[2] = "timeout"
  /\ seekOutcome[3] = "triggered"
  /\ seekOutcome[4] = "triggered"
  /\ pulses[3] > BACKOFF_STEPS /\ pulses[4] > BACKOFF_STEPS

\* C13: homeAllAxes sends no pulse to the base or the wrist-roll motor and
\* leaves their currentPosition entries as they were, whatever the switches
\* read.
C13_BaseAndRollUntouched ==
  (fw = "HS" /\ cmd = "H") =>
    /\ pulses[1] = 0 /\ pulses[5] = 0
    /\ currentPosition[1] = startPosition[1]
    /\ currentPosition[5] = startPosition[5]

C13_Witness ==
  /\ HomingDone /\ isHomed
  /\ SomeTimeout
  /\ \E j \in HomedJoints : seekOutcome[j] = "triggered"
  /\ \A j \in HomedJoints : pulses[j] > 0
  /\ pulses[1] = 0 /\ pulses[5] = 0

\* C14: the seek loop of a joint runs at most MAX_STEPS iterations, one
\* pulse each, so a homing sequence always ends, also when a switch never
\* reads triggered.
C14_SeekBoundedHomingEnds ==
  /\ [](pc = "seek" =>
          (stepCount <= MAX_STEPS /\ pulses[homeJoint] = stepCount))
  /\ [][(pc = "seek" /\ pulses' # pulses) =>
          /\ stepCount < MAX_STEPS
          /\ stepCount' = stepCount + 1
          /\ pulses' = [pulses EXCEPT ![homeJoint] = @ + 1]]_vars
  /\ (Homing ~> HomingDone)

C14_Witness ==
  /\ HomingDone
  /\ \A j \in HomedJoints : seekOutcome[j] = "timeout" /\ pulses[j] = MAX_STEPS

(***************************************************************************)
(* The solver, examined after a /solve request                             *)
(***************************************************************************)
Solved == fw = "WEB" /\ cmd = "solve"
Succeeded == Solved /\ lastSolveStatus = "Pending"
Failed == Solved /\ lastSolveStatus = "Failed"

\* geometry of the pose the last request asked for
PoseReach == IKReach(lastPose[1], lastPose[2], lastPose[3], lastPose[4])
PoseAngles == IKAngles(PoseReach, lastPose[4])
PoseDistSq == PoseReach.dd

\* the solve got past the distance check and both cosine-domain checks
PassedGeometry ==
  /\ PoseDistSq <= (L2 + L3) * (L2 + L3)
  /\ PoseDistSq >= (L2 - L3) * (L2 - L3)
  /\ PoseAngles.cos_angle2 \in -TRIG_SCALE..TRIG_SCALE
  /\ PoseAngles.cos_angle3 \in -TRIG_SCALE..TRIG_SCALE

\* shoulder, elbow and wrist pitch of a candidate within [-70,70], [-80,80]
\* and [-90,90]
WithinLimits(c) ==
  c[1] \in -70..70 /\ c[2] \in -80..80 /\ c[3] \in -90..90

UpFits == PoseDistSq > 0 /\ WithinLimits(PoseAngles.up)
DownFits == PoseDistSq > 0 /\ WithinLimits(PoseAngles.down)
Returned == <<theta[2], theta[3], theta[4]>>

\* C15: when both candidates satisfy the three limits the solve returns the
\* elbow-up values; the elbow-down values are returned only when elbow-up
\* violates a limit and elbow-down violates none.
C15_ElbowUpPreferred ==
  Solved =>
    /\ (PassedGeometry /\ UpFits /\ DownFits) =>
         (Succeeded /\ Returned = PoseAngles.up)
    /\ (Succeeded /\ Returned = PoseAngles.down
          /\ PoseAngles.down # PoseAngles.up) => (~UpFits /\ DownFits)

C15_Witness ==
  /\ Succeeded /\ PassedGeometry /\ UpFits /\ DownFits
  /\ PoseAngles.down # PoseAngles.up
  /\ Returned = PoseAngles.up
  /\ pendingMove = theta

\* C16: a successful solve returns shoulder, elbow and wrist pitch inside
\* [-70,70], [-80,80], [-90,90]; a solve that passed the distance and cosine
\* checks fails with the joint-limit reason exactly when neither candidate
\* satisfies all three limits.
C16_SolutionWithinLimits ==
  /\ Succeeded => WithinLimits(Returned)
  /\ (Solved /\ PassedGeometry) =>
       /\ (lastSolveError = ErrLimits) = (~UpFits /\ ~DownFits)
       /\ Failed = (~UpFits /\ ~DownFits)

C16_Witness ==
  /\ Succeeded /\ PassedGeometry
  /\ ~UpFits /\ DownFits
  /\ Returned = PoseAngles.down
  /\ WithinLimits(Returned)

\* C17: a failed solve reports one reason, the first failing check in the
\* order distance, shoulder cosine, elbow cosine, joint limits: a reason is
\* reported only if every earlier check passed; a successful solve reports
\* none.
C17_FailurePriority ==
  Solved =>
    LET dist == PoseDistSq > (L2 + L3) * (L2 + L3)
                  \/ PoseDistSq < (L2 - L3) * (L2 - L3)
        shoulder == PoseAngles.cos_angle2 \notin -TRIG_SCALE..TRIG_SCALE
        elbow == PoseAngles.cos_angle3 \notin -TRIG_SCALE..TRIG_SCALE
        limits == ~UpFits /\ ~DownFits
    IN /\ Succeeded = (lastSolveError = "")
       /\ Failed = (lastSolveError \in {ErrDistance, ErrShoulder, ErrElbow,
                                        ErrLimits})
       /\ Failed => reply = lastSolveError
       /\ (lastSolveError = ErrDistance) = dist
       /\ (lastSolveError = ErrShoulder) = (~dist /\ shoulder)
       /\ (lastSolveError = ErrElbow) = (~dist /\ ~shoulder /\ elbow)
       /\ (lastSolveError = ErrLimits) =
            (~dist /\ ~shoulder /\ ~elbow /\ limits)

C17_Witness ==
  /\ Failed /\ lastSolveError = ErrLimits
  /\ PassedGeometry
  /\ ~hasPendingMove
  /\ reply = ErrLimits

\* C18: the solve fails with the distance reason exactly when d > L2 + L3 or
\* d < |L2 - L3|, which with L2 = L3 is when d > 360 mm; solve(1000,0,0,0,0)
\* fails with it.
C18_UnreachableIffOutside ==
  Solved =>
    /\ (lastSolveError = ErrDistance) =
         (PoseDistSq > (L2 + L3) * (L2 + L3)
            \/ PoseDistSq < (L2 - L3) * (L2 - L3))
    /\ (lastSolveError = ErrDistance) = (PoseDistSq > 720 * 720)
    /\ lastSolveError = ErrDistance => Failed
    /\ lastPose = <<1000, 0, 0, 0, 0>> => lastSolveError = ErrDistance

C18_Witness ==
  /\ Failed /\ lastPose = <<1000, 0, 0, 0, 0>>
  /\ lastSolveError = ErrDistance
  /\ PoseDistSq > 720 * 720

\* d just inside the outer boundary L2 + L3, the inner boundary |L2 - L3|
NearOuter ==
  /\ PoseDistSq < (L2 + L3) * (L2 + L3)
  /\ PoseDistSq >= (L2 + L3 - BoundaryEps) * (L2 + L3 - BoundaryEps)
NearInner ==
  /\ PoseDistSq > (L2 - L3) * (L2 - L3)
  /\ PoseDistSq <= (Abs(L2 - L3) + BoundaryEps) * (Abs(L2 - L3) + BoundaryEps)

\* C19 as stated: a target whose wrist-centre distance lies just inside the
\* outer or the inner reachability boundary is solved.
C19_NearBoundarySolves ==
  (Solved /\ (NearOuter \/ NearInner)) => Succeeded

\* C19: a target whose wrist-centre distance lies just inside the outer or
\* the inner reachability boundary is not rejected for its distance; it is
\* solved exactly when one of the two candidates satisfies the joint limits,
\* which none does at the inner boundary.
C19_NearBoundaryNotUnreachable ==
  (Solved /\ (NearOuter \/ NearInner)) =>
    /\ lastSolveError # ErrDistance
    /\ Succeeded = (UpFits \/ DownFits)
    /\ NearInner => lastSolveError = ErrLimits

C19_Witness ==
  /\ Succeeded /\ NearOuter
  /\ lastPose = <<460, 0, 153, 0, 0>>
  /\ hasPendingMove

ExamplePose == <<200, 100, 200, 0, 0>>

\* C20 as stated: solve(200,100,200,0,0) succeeds and all five returned
\* angles lie within their configured limits.
C20_ExamplePoseSolves ==
  (Solved /\ lastPose = ExamplePose) =>
    (Succeeded /\ \A i \in Joints : InLimits(i, theta[i]))

\* C20: solve(200,100,200,0,0) passes the distance and cosine checks and
\* fails on the joint limits: both candidates need an elbow angle beyond
\* 80 degrees; only the base angle is written and no move is left pending.
C20_ExamplePoseExceedsLimits ==
  (Solved /\ lastPose = ExamplePose) =>
    /\ Failed /\ lastSolveError = ErrLimits
    /\ PassedGeometry
    /\ PoseAngles.up[2] > 80 /\ PoseAngles.down[2] < -80
    /\ theta[1] = 27
    /\ ~hasPendingMove

C20_Witness ==
  /\ Failed /\ lastPose = ExamplePose
  /\ lastSolveError = ErrLimits
  /\ theta[1] = 27

\* C21: every angle a successful solve returns lies in (-180, 180]: -180
\* itself is never returned and no returned angle exceeds 180, whatever the
\* pose and the roll asked for.
C21_AnglesHalfOpen ==
  Succeeded => \A i \in Joints : theta[i] > -180 /\ theta[i] <= 180

\* what the same request is answered with by a controller that has served
\* nothing since boot
FreshOutcome ==
  solveIK(lastPose[1], lastPose[2], lastPose[3], lastPose[4], lastPose[5],
          Zero5)

\* C22: the outcome of a solve (success flag, failure reason, the five
\* angles reported) depends on its five inputs only: whatever was solved
\* before, it is the outcome the same request has right after boot.
C22_OutcomeDependsOnInputOnly ==
  Solved =>
    /\ Succeeded = FreshOutcome.ok
    /\ lastSolveError = FreshOutcome.err
    /\ theta = FreshOutcome.theta

(***************************************************************************)
(* The step arithmetic, examined on M commands                             *)
(***************************************************************************)
\* the angle delta of joint i in the move being served
Delta(i) == reqTarget[i] - startPosition[i]

\* |delta| x (200 x microsteps / 360), times 25 on shoulder, elbow and wrist
\* pitch, fraction dropped
ExpectedSteps(i) ==
  (Abs(Delta(i)) * 200 * currentMicrosteps[i]
     * (IF i \in {2, 3, 4} THEN 25 ELSE 1)) \div 360

\* C23: the step count of a joint is its angle delta times
\* 200 x microsteps / 360, times 25 on joints 2..4 and 1 on joints 1 and 5,
\* truncated toward zero; its sign sets the direction pin and its absolute
\* value is the pulse count of the move; at 1/16 microstepping 360 degrees
\* are 3200 steps on a direct-drive joint and 80000 on a geared one.
C23_DegreesToSteps ==
  (pc = "moving" /\ cmd = "M") =>
    \A i \in Joints :
      /\ stepsNeeded[i] = ExpectedSteps(i)
      /\ dirPin[i] = ~(Delta(i) < 0 /\ ExpectedSteps(i) > 0)
      /\ (currentMicrosteps[i] = 16 /\ Abs(Delta(i)) = 360) =>
           stepsNeeded[i] = IF i \in {1, 5} THEN 3200 ELSE 80000

C23_Witness ==
  /\ pc = "moving" /\ cmd = "M"
  /\ currentMicrosteps = Default16
  /\ startPosition = <<1, 0, 0, 0, -1>>
  /\ reqTarget = <<360, -360, 0, 0, 0>>
  /\ stepsNeeded = <<3191, 80000, 0, 0, 8>>
  /\ dirPin = <<TRUE, FALSE, TRUE, TRUE, TRUE>>

\* the angles returned put the tool where the request asked
Reproduced ==
  LET p == FKPoint(theta)
  IN /\ Abs(p[1] - 2 * lastPose[1]) <= FKTol
     /\ Abs(p[2] - 2 * lastPose[2]) <= FKTol
     /\ Abs(p[3] - 2 * lastPose[3]) <= FKTol
     /\ theta[2] - theta[3] + theta[4] = lastPose[4]

\* C24: a pose inside the reachable envelope and within the joint limits
\* (the pose of a joint configuration inside the limits) is solved, and
\* forward kinematics of the returned angles reproduces its x, y, z and
\* pitch.
C24_RoundTrip ==
  (Solved /\ lastPose \in RoundTripPoses) => (Succeeded /\ Reproduced)

\* C25: in the stepping loop the products stepsTaken[i] * maxSteps and
\* stepsNeeded[i] * step stay within the 32-bit long for every move whose
\* joint deltas are at most 360 degrees, so the proportional test is never
\* evaluated on an overflowed product.
C25_ProductsFitLong ==
  (/\ pc = "moving" /\ step < maxSteps
   /\ \A i \in Joints : Abs(Delta(i)) <= 360) =>
    \A i \in Joints :
      /\ ~Exceeds(stepsTaken[i], maxSteps)
      /\ ~Exceeds(stepsNeeded[i], step)

\* C26: with microstepping unchanged, whenever the arm is idle after moves
\* made since position P0 was noted, the net signed number of pulses sent to
\* each joint is less than one step away from
\* (currentPosition - P0) x stepsPerDegree of that joint.
C26_NoDrift ==
  (pc = "idle" /\ anchor # NoAnchor /\ microCmds = 0) =>
    \A i \in Joints :
      Abs(netPulses[i] * 360
            - (currentPosition[i] - anchor[i]) * 200 * currentMicrosteps[i]
                * (IF i \in {2, 3, 4} THEN 25 ELSE 1)) < 360

\* C27: a joint is treated as timed out only if its switch had not triggered
\* when the ceiling was reached: a joint whose switch read triggered when
\* the seek loop was left, after any number of steps from 0 to MAX_STEPS,
\* went on to the back-off and is not timed out.
C27_TimeoutOnlyIfNotTriggered ==
  \A j \in HomedJoints :
    /\ exitRead[j] = "low" => seekOutcome[j] = "triggered"
    /\ seekOutcome[j] = "timeout" => exitRead[j] = "high"

\* ceiling of a / b for a >= 0, b > 0
CeilDiv(a, b) == (a + b - 1) \div b

\* after tick step - 1 every joint has been sent ceil(ni x (step - 1) / N)
\* pulses (step counts the ticks done)
CeilCount ==
  \A i \in Joints :
    /\ pulses[i] = stepsTaken[i]
    /\ step = 0 => stepsTaken[i] = 0
    /\ step > 0 =>
         stepsTaken[i] = CeilDiv(stepsNeeded[i] * (step - 1), maxSteps)

MustHomeFirst == "ERROR: Must home first! Send 'H' command."

\* a step that handles the P command of Homing_Sequence.ino
ParkHandled == fw = "HS" /\ pc = "idle" /\ cmd' = "P"

\* C29: once isHomed is true no step resets it, a later homing sequence
\* included, and a P handled from then on is never refused with "Must home
\* first" (so also during and after a re-homing whose switch never triggers).
C29_HomedNeverReset ==
  [][isHomed =>
       /\ isHomed'
       /\ ParkHandled => (reply' # MustHomeFirst /\ pc' = "moving")]_vars

\* a re-homing in progress whose seek has run into the ceiling: the flag of
\* the earlier sequence is still set
C29_Witness ==
  /\ fw = "HS" /\ cmd = "H" /\ pc # "idle"
  /\ SomeTimeout
  /\ isHomed

\* C30: in Homing_Sequence.ino a P handled while isHomed is false is answered
\* "Must home first" and changes nothing; pulses are sent and currentPosition
\* changes under a P command only when isHomed was true.
C30_ParkOnlyWhenHomed ==
  /\ [][(ParkHandled /\ ~isHomed) =>
          /\ reply' = MustHomeFirst
          /\ pc' = "idle"
          /\ UNCHANGED <<currentPosition, targetPosition, dirPin, pulses,
                         isHomed, motorsEnabled, netPulses, moveLocals,
                         homeLocals>>]_vars
  /\ [][(fw = "HS" /\ cmd' = "P"
           /\ (pulses' # pulses \/ currentPosition' # currentPosition
                \/ pc' = "moving"))
          => isHomed]_vars

\* P has just been refused
C30_Witness ==
  /\ fw = "HS" /\ cmd = "P" /\ pc = "idle"
  /\ ~isHomed
  /\ reply = MustHomeFirst
  /\ pulses = Zero5 /\ currentPosition = Zero5

\* a step that ends the homing of the current joint
AxisLeft ==
  /\ pc \in {"seek", "backoff"}
  /\ pc' \notin {"seek", "backoff"} \/ homeJoint' # homeJoint

\* C31: a joint whose switch read triggered when its seek ended is backed off
\* by exactly BACKOFF_STEPS pulses with the direction pin reversed, the
\* back-off starting only after the seek has ended; a joint whose switch
\* still read open at the ceiling gets no back-off pulse.
C31_BackoffAfterTrigger ==
  /\ [][AxisLeft =>
          /\ exitRead'[homeJoint] = "low" =>
                /\ pc = "backoff"
                /\ backoffI = BACKOFF_STEPS
                /\ pulses[homeJoint] = stepCount + BACKOFF_STEPS
                /\ dirPin[homeJoint] = TRUE
          /\ exitRead'[homeJoint] = "high" =>
                /\ pc = "seek"
                /\ pulses[homeJoint] = stepCount]_vars
  /\ [](pc = "backoff" => seekOutcome[homeJoint] = "triggered")

\* C32: the reading taken after the back-off has no effect on the sequence:
\* whether the switch still reads triggered or not, the joint keeps its
\* "triggered" outcome, the next joint's seek begins (or, after the wrist
\* pitch, the positions are set), and a run in which a switch still read
\* triggered ends with isHomed true.
C32_StillTriggeredProceeds ==
  /\ [][(pc = "backoff" /\ AxisLeft) =>
          /\ verifyRead'[homeJoint] \in {"low", "high"}
          /\ seekOutcome'[homeJoint] = "triggered"
          /\ IF homeJoint < 4
               THEN /\ pc' = "seek"
                    /\ homeJoint' = homeJoint + 1
                    /\ stepCount' = 0
                    /\ dirPin'[homeJoint + 1] = FALSE
               ELSE pc' = "sethomed"
          /\ UNCHANGED <<isHomed, currentPosition, pulses>>]_vars
  /\ []((HomingDone /\ \E j \in HomedJoints : verifyRead[j] = "low")
          => isHomed)

\* a finished run in which every joint still sat on its switch after the
\* back-off
C32_Witness ==
  /\ HomingDone /\ isHomed
  /\ \A j \in HomedJoints : verifyRead[j] = "low"
  /\ currentPosition = HomedPosition(Zero5)

\* a step that handles an /executeMove request
ExecuteHandled == fw = "WEB" /\ pc = "idle" /\ cmd' = "executeMove"

\* C33: an /executeMove handled while hasPendingMove is false is answered
\* with the "No pending move" error, starts no move, sends no pulse and
\* leaves currentPosition, pendingMove, hasPendingMove and lastSolveStatus
\* as they were.
C33_ExecuteWithoutPending ==
  [][(ExecuteHandled /\ ~hasPendingMove) =>
       /\ reply' = HttpNoPending
       /\ pc' = "idle"
       /\ UNCHANGED <<pulses, netPulses, dirPin, currentPosition, pendingMove,
                      hasPendingMove, lastSolveStatus>>]_vars

\* an /executeMove has just been rejected after an earlier one ran
C33_Witness ==
  /\ fw = "WEB" /\ pc = "idle" /\ cmd = "executeMove"
  /\ reply = HttpNoPending
  /\ ~hasPendingMove
  /\ lastSolveStatus = "Complete"

\* a step that handles a /solve request
SolveHandled == fw = "WEB" /\ pc = "idle" /\ cmd' = "solve"

\* C34: a /solve request starts no move and sends no pulse; an /executeMove
\* that has run leaves hasPendingMove false, only a successful /solve sets
\* it again, and an /executeMove starts a move only while it is true, so
\* each successful solve is executed at most once.
C34_ExecuteAtMostOnce ==
  /\ [][SolveHandled =>
          /\ pc' = "idle"
          /\ UNCHANGED <<pulses, netPulses, dirPin, currentPosition,
                         targetPos>>]_vars
  /\ [][(fw = "WEB" /\ cmd = "executeMove" /\ pc = "moving" /\ pc' = "idle")
          => ~hasPendingMove']_vars
  /\ [][(fw = "WEB" /\ ~hasPendingMove /\ hasPendingMove')
          => (SolveHandled /\ reply' = HttpSolved)]_vars
  /\ [][ExecuteHandled =>
          IF hasPendingMove
            THEN reqTarget' = pendingMove
            ELSE reply' = HttpNoPending /\ pc' = "idle"]_vars

\* a second /executeMove after the solution was executed: rejected, the arm
\* stays where the first one put it
C34_Witness ==
  /\ fw = "WEB" /\ pc = "idle" /\ cmd = "executeMove"
  /\ reply = HttpNoPending
  /\ currentPosition = pendingMove
  /\ currentPosition # Zero5
  /\ pulses # Zero5

\* the most recent /solve request succeeded and pendingMove holds its angles
PendingIsLastSolve ==
  /\ lastSolveError = ""
  /\ pendingMove = theta
  /\ \E res \in {solveIK(lastPose[1], lastPose[2], lastPose[3], lastPose[4],
                          lastPose[5], Zero5)} :
        res.ok /\ pendingMove = res.theta
  /\ \A i \in HomedJoints :
        JointMin[i] <= pendingMove[i] /\ pendingMove[i] <= JointMax[i]

\* C35: while hasPendingMove is true, pendingMove holds the five angles of
\* the most recent /solve request, which succeeded, with shoulder, elbow and
\* wrist pitch inside their limits; a failed /solve clears hasPendingMove.
C35_PendingIsLastSolve ==
  /\ []((fw = "WEB" /\ hasPendingMove) => PendingIsLastSolve)
  /\ [][(SolveHandled /\ reply' # HttpSolved) =>
          /\ ~hasPendingMove'
          /\ lastSolveStatus' = "Failed"
          /\ lastSolveError' # ""]_vars

\* a solve has just failed after an earlier one had succeeded: the older
\* solution is still stored but no longer pending
C35_Witness ==
  /\ fw = "WEB" /\ pc = "idle" /\ cmd = "solve"
  /\ lastSolveStatus = "Failed"
  /\ ~hasPendingMove
  /\ pendingMove # Zero5
  /\ currentPosition = Zero5

\* C36: a /solve request that fails leaves all five entries of theta as they
\* were before the request.
C36_FailedSolveKeepsTheta ==
  [][(SolveHandled /\ reply' # HttpSolved) => theta' = theta]_vars

\* C37: a /solve request whose pitch is a whole turn more than that of the
\* request before it, everything else equal, has the same outcome: the same
\* five angles if that one succeeded, the same failure reason if it failed.
C37_WholeTurnOfPitch ==
  [][(SolveHandled /\ cmd = "solve"
        /\ lastPose' = [lastPose EXCEPT ![4] = @ + FULL_TURN])
       => /\ reply' = reply
          /\ reply = HttpSolved => theta' = theta]_vars

\* the running move is one that returns to the noted position
Returning ==
  /\ anchor # NoAnchor /\ pc = "moving"
  /\ reqTarget = anchor /\ startPosition # anchor

\* C38: with microstepping unchanged, a move from A to B and the move back
\* from B to A send every joint the same number of pulses in opposite
\* directions: the move back starts with each direction pin opposite to the
\* pulses counted since A, and when the arm is back at A the net count of
\* every joint is zero.
C38_PairNetsZero ==
  /\ (Returning /\ step = 0) =>
       \A i \in Joints : netPulses[i] # 0 => dirPin[i] = (netPulses[i] < 0)
  /\ (Returning /\ ~(step < maxSteps)) => netPulses = Zero5
  /\ (anchor # NoAnchor /\ pc = "idle" /\ currentPosition = anchor)
       => netPulses = Zero5

\* back at <<2, 1, -1, 0, 0>> from <<-3, 0, 0, -1, 7>>: every joint has moved
\* and the counts have cancelled
C38_Witness ==
  /\ pc = "idle" /\ cmd = "M"
  /\ anchor = <<2, 1, -1, 0, 0>>
  /\ currentPosition = anchor
  /\ startPosition = <<-3, 0, 0, -1, 7>>
  /\ \A i \in Joints : pulses[i] > 0
  /\ netPulses = Zero5

\* a step that handles an S command
MicroHandled == fw = "MC" /\ pc = "idle" /\ cmd' = "S"

\* C39: an S command answered with one of the two error lines (group
\* outside 1..3, microsteps not one of 1, 2, 4, 8, 16) leaves currentMicrosteps
\* unchanged; one answered as a group-2 command sets the shoulder, elbow and
\* wrist pitch entries to its value and leaves the other two; after any
\* sequence of commands every entry is one of 1, 2, 4, 8, 16 and the three
\* geared joints hold the same value.
C39_MicrostepsValid ==
  /\ [](fw = "MC" =>
          /\ \A i \in Joints : currentMicrosteps[i] \in ValidMicrosteps
          /\ currentMicrosteps[2] = currentMicrosteps[3]
          /\ currentMicrosteps[3] = currentMicrosteps[4])
  /\ [][(MicroHandled /\ reply' \in {MicroErrGroup, MicroErrValue})
          => UNCHANGED currentMicrosteps]_vars
  /\ [][MicroHandled =>
          \A m \in ValidMicrosteps :
            reply' = GroupLine(2, m) =>
              currentMicrosteps' =
                <<currentMicrosteps[1], m, m, m, currentMicrosteps[5]>>]_vars

\* a rejected S command after a group-2 command that was accepted
C39_Witness ==
  /\ fw = "MC" /\ cmd = "S"
  /\ reply = MicroErrValue
  /\ currentMicrosteps = <<16, 4, 4, 4, 16>>

\* a step that handles the H command of Motor_Controller.ino
HomeStubHandled == fw = "MC" /\ pc = "idle" /\ cmd' = "H"

\* C40: in Motor_Controller.ino an H handled with the motors enabled sets
\* the five currentPosition and targetPosition entries to 0, sends no pulse,
\* touches no direction pin and reads no limit switch; handled with the
\* motors disabled it leaves positions, pins and counters as they were.
C40_HomeStubOnlyResets ==
  [][HomeStubHandled =>
       /\ pc' = "idle"
       /\ UNCHANGED <<pulses, netPulses, dirPin, homeLocals, moveLocals,
                      currentMicrosteps, motorsEnabled, isHomed>>
       /\ IF motorsEnabled
            THEN currentPosition' = Zero5 /\ targetPosition' = Zero5
            ELSE UNCHANGED <<currentPosition, targetPosition>>]_vars

\* H after a move, with the motors disabled in between: the arm is still
\* recorded where the move left it
C40_Witness ==
  /\ fw = "MC" /\ pc = "idle" /\ cmd = "H"
  /\ ~motorsEnabled
  /\ currentPosition = <<9, 0, 0, 0, -4>>
  /\ targetPosition = currentPosition

====
